---------------------------- MODULE Spec2Model ----------------------------
(***************************************************************************)
(* The `git log` virtual table (commits): the index planner                *)
(* gitLogTable.BestIndex and the cursor gitLogCursor (Filter, Next,        *)
(* Column, Eof, Close), with the collaborators they call (the repository   *)
(* locator, the git plumbing's commit iterators, the mailmap).             *)
(* The bitmap's codec (set, enc, dec) and the option functions of         *)
(* tables.Options have specifications of their own.                        *)
(***************************************************************************)
EXTENDS Integers, Sequences, FiniteSets, TLC

VARIABLES
    input,      \* the IndexInfoInput the host offers to BestIndex
    plan,       \* what BestIndex returned for it
    world,      \* the repository on disk: commit graph, head, refs, .mailmap
    ctx,        \* ModuleOptions.Context: default repository, skipMailmap
    cur,        \* the gitLogCursor: repo, rev, commit, commits, mm
    ret,        \* the last cursor call and the error it returned
    rows,       \* the commits the cursor was positioned on since the last Filter
    calls,      \* the collaborator calls the last Filter made
    result,     \* the last value Column handed to the host
    codec,      \* a tag sequence on its way through set, enc and dec
    options,    \* the tables.Options the option functions are applied to
    applied     \* the option functions applied to it so far, in order

vars == <<input, plan, world, ctx, cur, ret, rows, calls, result,
          codec, options, applied>>

planVars == <<input, plan>>
cursorVars == <<world, ctx, cur, ret, rows, calls, result>>
codecVars == <<codec>>
optionVars == <<options, applied>>

\* Go's nil (a nil pointer, a nil interface, a nil map); what is not nil
\* is a record of its own: a commit [hash], a repository [path], a
\* revision [name], a map [entries], a time [ok, t]
Nil == [nil |-> TRUE]

-----------------------------------------------------------------------------
(* Bounds *)

\* the longest list of constraints the host offers
MaxConstraints == 2

\* the number of commits in the repository
MaxCommits == 3

\* the largest op and the largest column index of a tag handed to set
MaxTagField == 17

\* the number of tags that follow the first one in a bitmap
MaxTagTail == 1

\* the number of option functions applied to one Options value
MaxOptions == 3

-----------------------------------------------------------------------------
(* Bytes *)

RECURSIVE BitOr(_, _)
\* a | b on non-negative integers
BitOr(a, b) ==
    IF a = 0 THEN b
    ELSE IF b = 0 THEN a
    ELSE (IF (a % 2 = 1) \/ (b % 2 = 1) THEN 1 ELSE 0)
         + 2 * BitOr(a \div 2, b \div 2)

\* byte(x): the low eight bits
Byte(x) == x % 256

\* the op codes BestIndex writes in a tag's high nibble
OpEQ == 1
OpLT == 2
OpGT == 3

\* the schema's column indexes BestIndex and Filter name
ColHash == 0
ColCommitterWhen == 7
ColRepository == 9
ColRef == 10

\* mutant: the op is shifted by three bits, into the column's nibble
MutSet(bitmap, op, col) == Append(bitmap, Byte(BitOr(op * 8, col)))

\* set := func(op, col int) { bitmap = append(bitmap, byte(op<<4|col)) }
set(bitmap, op, col) == Append(bitmap, Byte(BitOr(op * 16, col)))

\* enc: the bitmap as a string, two hexadecimal digits a byte
RECURSIVE enc(_)
enc(bitmap) ==
    IF bitmap = <<>> THEN <<>>
    ELSE <<Head(bitmap) \div 16, Head(bitmap) % 16>> \o enc(Tail(bitmap))

\* dec: the bytes of a string of hexadecimal digits (a trailing odd digit
\* is an error, and the bytes before it are returned)
RECURSIVE dec(_)
dec(s) ==
    IF Len(s) < 2 THEN <<>>
    ELSE <<s[1] * 16 + s[2]>> \o dec(SubSeq(s, 3, Len(s)))

-----------------------------------------------------------------------------
(* The index planner *)

\* the columns and operators of the constraints the host offers
OfferedColumns == {0, 1, 7, 9, 10}
OfferedOps == {"EQ", "LT", "GT", "GE"}

Constraints ==
    [ColumnIndex : OfferedColumns, Op : OfferedOps, Usable : BOOLEAN]

RECURSIVE SeqsUpTo(_, _)
\* the sequences over S of length at most n
SeqsUpTo(S, n) ==
    IF n = 0 THEN {<<>>}
    ELSE LET shorter == SeqsUpTo(S, n - 1)
         IN  shorter \cup {Append(q, x) : q \in shorter, x \in S}

\* the orderings the host requests
OrderBys ==
    { <<>>,
      <<[ColumnIndex |-> 7, Desc |-> TRUE]>>,
      <<[ColumnIndex |-> 7, Desc |-> FALSE]>>,
      <<[ColumnIndex |-> 0, Desc |-> TRUE]>>,
      <<[ColumnIndex |-> 7, Desc |-> TRUE], [ColumnIndex |-> 0, Desc |-> TRUE]>>,
      <<[ColumnIndex |-> 7, Desc |-> TRUE], [ColumnIndex |-> 7, Desc |-> TRUE]>> }

Inputs ==
    [Constraints : SeqsUpTo(Constraints, MaxConstraints), OrderBy : OrderBys]

\* out = &sqlite.IndexInfoOutput{}; out.ConstraintUsage = make(..., len)
NewIndexInfoOutput(n) ==
    [ ConstraintUsage |-> [i \in 1..n |-> Nil],
      EstimatedCost   |-> 0,
      EstimatedRows   |-> 0,
      IdxFlags        |-> {},
      OrderByConsumed |-> FALSE,
      IndexString     |-> <<>> ]

\* mutant: an unusable hash constraint is skipped like any other
MutHashMustBeUsable(constraint) == FALSE

\* if hash is provided, it must be usable
HashMustBeUsable(constraint) ==
    constraint.ColumnIndex = ColHash /\ ~constraint.Usable

\* if repository is provided, it must be usable
RepositoryMustBeUsable(constraint) ==
    constraint.ColumnIndex = ColRepository /\ ~constraint.Usable

\* case idx == 0 && Op == EQ: the point lookup, at most one row
UseHash(st, i, idx, argv) ==
    [ argv   |-> argv,
      bitmap |-> set(st.bitmap, OpEQ, idx),
      out    |-> [st.out EXCEPT
                   !.ConstraintUsage[i] = [ArgvIndex |-> argv, Omit |-> FALSE],
                   !.EstimatedCost = 1,
                   !.EstimatedRows = 1,
                   !.IdxFlags = @ \cup {"INDEX_SCAN_UNIQUE"}] ]

\* mutant: a repository or ref equality is planned as a unique scan too
MutUseSelector(st, i, idx, argv) ==
    [ argv   |-> argv,
      bitmap |-> set(st.bitmap, OpEQ, idx),
      out    |-> [st.out EXCEPT
                   !.ConstraintUsage[i] = [ArgvIndex |-> argv, Omit |-> TRUE],
                   !.EstimatedCost = 1,
                   !.EstimatedRows = 1,
                   !.IdxFlags = @ \cup {"INDEX_SCAN_UNIQUE"}] ]

\* case (idx == 9 || idx == 10) && Op == EQ: which repository and reference
UseSelector(st, i, idx, argv) ==
    [ argv   |-> argv,
      bitmap |-> set(st.bitmap, OpEQ, idx),
      out    |-> [st.out EXCEPT
                   !.ConstraintUsage[i] = [ArgvIndex |-> argv, Omit |-> TRUE]] ]

\* mutant: the host is told not to re-check a bound on committer_when
MutUseRange(st, i, idx, op, argv) ==
    [ argv   |-> argv,
      bitmap |-> IF op = "LT" THEN set(st.bitmap, OpLT, idx)
                              ELSE set(st.bitmap, OpGT, idx),
      out    |-> [st.out EXCEPT
                   !.ConstraintUsage[i] = [ArgvIndex |-> argv, Omit |-> TRUE]] ]

\* case idx == 7 && (Op == LT || Op == GT): a bound on committer_when
UseRange(st, i, idx, op, argv) ==
    [ argv   |-> argv,
      bitmap |-> IF op = "LT" THEN set(st.bitmap, OpLT, idx)
                              ELSE set(st.bitmap, OpGT, idx),
      out    |-> [st.out EXCEPT
                   !.ConstraintUsage[i] = [ArgvIndex |-> argv, Omit |-> FALSE]] ]

\* mutant: the slot taken pro-actively is not given back
MutUnused(st, argv) == [st EXCEPT !.argv = argv]

\* default: argv -= 1, the constraint is not used
Unused(st, argv) == [st EXCEPT !.argv = argv - 1]

\* the loop body for a usable constraint: argv += 1, then the switch
UseConstraint(st, i, constraint) ==
    LET idx  == constraint.ColumnIndex
        argv == st.argv + 1
    IN  IF idx = ColHash /\ constraint.Op = "EQ"
        THEN UseHash(st, i, idx, argv)
        ELSE IF (idx = ColRepository \/ idx = ColRef) /\ constraint.Op = "EQ"
        THEN UseSelector(st, i, idx, argv)
        ELSE IF idx = ColCommitterWhen /\ (constraint.Op = "LT" \/ constraint.Op = "GT")
        THEN UseRange(st, i, idx, constraint.Op, argv)
        ELSE Unused(st, argv)

RECURSIVE VisitConstraints(_, _, _)
\* for i, constraint := range input.Constraints
VisitConstraints(cs, i, st) ==
    IF i > Len(cs) THEN [err |-> "OK", st |-> st]
    ELSE IF HashMustBeUsable(cs[i]) THEN [err |-> "SQLITE_CONSTRAINT", st |-> st]
    ELSE IF RepositoryMustBeUsable(cs[i]) THEN [err |-> "SQLITE_CONSTRAINT", st |-> st]
    ELSE IF ~cs[i].Usable THEN VisitConstraints(cs, i + 1, st)
    ELSE VisitConstraints(cs, i + 1, UseConstraint(st, i, cs[i]))

\* mutant: the direction of the ordering is not looked at
MutOrderByConsumed(orderBy) ==
    Len(orderBy) = 1 /\ orderBy[1].ColumnIndex = 7

\* len(input.OrderBy) == 1 && OrderBy[0].ColumnIndex == 7 && OrderBy[0].Desc
OrderByConsumed(orderBy) ==
    Len(orderBy) = 1 /\ orderBy[1].ColumnIndex = ColCommitterWhen /\ orderBy[1].Desc

\* BestIndex: (out, nil) or (nil, SQLITE_CONSTRAINT)
BestIndex(in) ==
    LET n    == Len(in.Constraints)
        loop == VisitConstraints(in.Constraints, 1,
                    [argv |-> 0, bitmap |-> <<>>, out |-> NewIndexInfoOutput(n)])
    IN  IF loop.err # "OK"
        THEN [called |-> TRUE, err |-> loop.err, out |-> Nil]
        ELSE [ called |-> TRUE,
               err    |-> "OK",
               out    |-> [loop.st.out EXCEPT
                            !.OrderByConsumed = OrderByConsumed(in.OrderBy),
                            !.IndexString = enc(loop.st.bitmap)] ]

NoPlan == [called |-> FALSE, err |-> "OK", out |-> Nil]

-----------------------------------------------------------------------------
(* The repository: objects, references, the tree's .mailmap *)

\* plumbing.ZeroHash
ZeroHash == 0

\* plumbing.NewHash: the hexadecimal digits of s decoded, in either case;
\* digits that are not hexadecimal decode to nothing
NewHash(s) ==
    CASE s \in {"a1", "A1"} -> 1
      [] s \in {"a2", "A2"} -> 2
      [] s \in {"a3", "A3"} -> 3
      [] s \in {"a4", "A4"} -> 4
      [] s \in {"a5", "A5"} -> 5
      [] s \in {"ff", "FF"} -> 255
      [] OTHER -> ZeroHash

\* Hash.String: the lowercase hexadecimal digits
HashString(h) ==
    CASE h = 1 -> "a1"
      [] h = 2 -> "a2"
      [] h = 3 -> "a3"
      [] h = 4 -> "a4"
      [] h = 5 -> "a5"
      [] h = 255 -> "ff"
      [] OTHER -> "00"

\* time.Parse(time.RFC3339, s): the instant (seconds), or an error
ParseRFC3339(s) ==
    CASE s = "2021-01-01T00:00:01Z"      -> [ok |-> TRUE, t |-> 1]
      [] s = "2021-01-01T00:00:02Z"      -> [ok |-> TRUE, t |-> 2]
      [] s = "2021-01-01T01:00:02+01:00" -> [ok |-> TRUE, t |-> 2]
      [] s = "2021-01-01T00:00:03Z"      -> [ok |-> TRUE, t |-> 3]
      [] s = "2021-01-01T00:00:04Z"      -> [ok |-> TRUE, t |-> 4]
      [] s = "2021-01-01T00:00:05Z"      -> [ok |-> TRUE, t |-> 5]
      [] OTHER -> [ok |-> FALSE, t |-> 0]

\* Time.Format(time.RFC3339) of a commit's time (kept in UTC here)
FormatRFC3339(t) ==
    CASE t = 1 -> "2021-01-01T00:00:01Z"
      [] t = 2 -> "2021-01-01T00:00:02Z"
      [] t = 3 -> "2021-01-01T00:00:03Z"
      [] t = 4 -> "2021-01-01T00:00:04Z"
      [] OTHER -> "2021-01-01T00:00:05Z"

\* the raw identities commits carry, and the canonical one .mailmap gives
RawA == [Name |-> "A", Email |-> "a@x"]
RawBob == [Name |-> "Bob", Email |-> "bob@x"]
Alice == [Name |-> "Alice", Email |-> "alice@x"]

\* the .mailmap of the model's repositories, parsed: raw -> canonical
TheMailMap == [x \in {RawA} |-> Alice]

\* mailmap.Parse: the map of a well-formed file
Parse(file) == [entries |-> file.entries]

\* MailMap.Lookup: the canonical identity, or the one given when the map
\* (nil or not) has none for it
Lookup(mm, in) ==
    IF mm # Nil /\ in \in DOMAIN mm.entries THEN mm.entries[in] ELSE in

\* the repository path the locator opens
RepoPath == "/repo"

\* Locator.Open
LocatorOpens(path) == path = RepoPath

\* utils.GetDefaultRepoFromCtx
GetDefaultRepoFromCtx(x) == x.defaultRepo

\* Context.GetBool("skipMailmap")
SkipMailmap(x) == x.skipMailmap

Commits(w) == 1..w.n

\* storer.EncodedObject(plumbing.CommitObject, h): is there such an object
HasObject(w, h) == h \in Commits(w) /\ h \notin w.missing

\* object.DecodeCommit / repo.CommitObject: "OK", or why there is no commit
CommitObject(w, h) ==
    IF ~HasObject(w, h) THEN "ErrObjectNotFound"
    ELSE IF h \in w.corrupt THEN "ErrDecode"
    ELSE "OK"

\* repo.ResolveRevision(rev): the commit a name resolves to, or an error
ResolveRevision(w, name) ==
    IF name \in DOMAIN w.refs THEN [ok |-> TRUE, hash |-> w.refs[name]]
    ELSE [ok |-> FALSE, hash |-> ZeroHash]

\* repo.Head()
RepoHead(w) ==
    IF w.head # ZeroHash THEN [ok |-> TRUE, hash |-> w.head]
    ELSE [ok |-> FALSE, hash |-> ZeroHash]

-----------------------------------------------------------------------------
(* The traversal sources: object.CommitIter *)

\* mutant: the heap's order is reversed, the earliest commit comes first
MutLatest(w, heap) ==
    {c \in Commits(w) : heap[c] > 0 /\
        \A d \in Commits(w) : heap[d] > 0 => w.when[c] <= w.when[d]}

\* the commits of a heap with the latest committer time:
\* heap.Pop of commitIteratorByCTime (ties: any of them)
Latest(w, heap) ==
    {c \in Commits(w) : heap[c] > 0 /\
        \A d \in Commits(w) : heap[d] > 0 => w.when[d] <= w.when[c]}

RECURSIVE PushParents(_, _, _, _)
\* for _, h := range c.ParentHashes: skip the seen ones, GetCommit, Push
PushParents(w, it, c, from) ==
    IF from > w.n THEN [err |-> "OK", it |-> it]
    ELSE IF from \notin w.parents[c] \/ from \in it.seen
         THEN PushParents(w, it, c, from + 1)
    ELSE IF CommitObject(w, from) # "OK"
         THEN [err |-> CommitObject(w, from), it |-> it]
    ELSE PushParents(w, [it EXCEPT !.heap[from] = @ + 1], c, from + 1)

RECURSIVE CTimeNext(_, _)
\* commitIteratorByCTime.Next: the outcomes [c, err, it]
CTimeNext(w, it) ==
    IF \A c \in Commits(w) : it.heap[c] = 0
    THEN {[c |-> Nil, err |-> "EOF", it |-> it]}
    ELSE UNION {
        LET popped == [it EXCEPT !.heap[c] = @ - 1]
        IN  IF c \in it.seen THEN CTimeNext(w, popped)
            ELSE LET pushed == PushParents(w,
                                 [popped EXCEPT !.seen = @ \cup {c}], c, 1)
                 IN  IF pushed.err # "OK"
                     THEN {[c |-> Nil, err |-> pushed.err, it |-> pushed.it]}
                     ELSE {[c |-> [hash |-> c], err |-> "OK", it |-> pushed.it]}
        : c \in Latest(w, it.heap) }

RECURSIVE LimitNext(_, _)
\* commitLimitIter.Next: commits before Since or after Until are skipped
LimitNext(w, it) ==
    UNION {
        IF o.err # "OK" THEN {o}
        ELSE IF it.since # Nil /\ w.when[o.c.hash] < it.since.t THEN LimitNext(w, o.it)
        ELSE IF it.until # Nil /\ w.when[o.c.hash] > it.until.t THEN LimitNext(w, o.it)
        ELSE {o}
        : o \in CTimeNext(w, it) }

\* EncodedObjectLookupIter.Next, then object.DecodeCommit
LookupNext(w, it) ==
    IF it.pos >= Len(it.series)
    THEN {[c |-> Nil, err |-> "EOF", it |-> it]}
    ELSE LET h == it.series[it.pos + 1]
         IN  IF ~HasObject(w, h)
             THEN {[c |-> Nil, err |-> "ErrObjectNotFound", it |-> it]}
             ELSE IF CommitObject(w, h) # "OK"
             THEN {[c |-> Nil, err |-> CommitObject(w, h),
                    it |-> [it EXCEPT !.pos = @ + 1]]}
             ELSE {[c |-> [hash |-> h], err |-> "OK", it |-> [it EXCEPT !.pos = @ + 1]]}

\* the iterator behind the interface: a lookup, a limited or a plain walk
SourceNext(w, it) ==
    IF it.kind = "lookup" THEN LookupNext(w, it)
    ELSE IF it.limited THEN LimitNext(w, it)
    ELSE CTimeNext(w, it)

\* cur.commits.Next(); the source remembers in `last` what it gave to its
\* last call (nil with an error, the end included), nil before any call
IterNext(w, it) ==
    { [o EXCEPT !.it.last = o.c] : o \in SourceNext(w, it) }

\* cur.commits.Close(): the lookup iterator forgets what is left of its
\* series; the committer-time iterator has nothing to release
IterClose(it) ==
    IF it.kind = "lookup" THEN [it EXCEPT !.pos = Len(it.series)]
    ELSE it

\* object.NewCommitIter over storer.NewEncodedObjectLookupIter
NewLookupIter(h) ==
    [kind |-> "lookup", series |-> <<h>>, pos |-> 0, last |-> Nil]

\* repo.Log(&git.LogOptions{Order: LogOrderCommitterTime, From, Since, Until})
NewLogIter(w, from, since, until) ==
    [ kind    |-> "ctime",
      heap    |-> [c \in Commits(w) |-> IF c = from THEN 1 ELSE 0],
      seen    |-> {},
      limited |-> (since # Nil \/ until # Nil),
      since   |-> since,
      until   |-> until,
      last    |-> Nil ]

-----------------------------------------------------------------------------
(* The cursor *)

\* the tag bytes Filter's switch names
TagHash == 16
TagRepository == 25
TagRef == 26
TagUntil == 39
TagSince == 55

\* &gitLogCursor{ModuleOptions: tab.ModuleOptions}
NewCursor ==
    [repo |-> Nil, rev |-> Nil, commit |-> Nil, commits |-> Nil, mm |-> Nil]

NoFields ==
    [hash |-> "", path |-> "", refName |-> "", start |-> "", end |-> ""]

\* switch b := bitmap[i]; b { case 0b00010000: hash = val.Text() ... }
Route(f, b, val) ==
    IF b = TagHash THEN [f EXCEPT !.hash = val]
    ELSE IF b = TagRepository THEN [f EXCEPT !.path = val]
    ELSE IF b = TagRef THEN [f EXCEPT !.refName = val]
    ELSE IF b = TagUntil THEN [f EXCEPT !.end = val]
    ELSE IF b = TagSince THEN [f EXCEPT !.start = val]
    ELSE f

RECURSIVE RouteValues(_, _, _, _)
\* for i, val := range values
RouteValues(bitmap, values, i, f) ==
    IF i > Len(values) THEN f
    ELSE RouteValues(bitmap, values, i + 1, Route(f, bitmap[i], values[i]))

\* the values Filter extracts from the constraints
Fields(s, values) == RouteValues(dec(s), values, 1, NoFields)

\* Eof: cur.commit == nil
Eof(c) == c.commit = Nil

\* mutant: an object that is not found is an error like any other
MutSwallowed(err) == err = "EOF"

\* eof(err) || err == plumbing.ErrObjectNotFound
Swallowed(err) == err = "EOF" \/ err = "ErrObjectNotFound"

\* gitLogCursor.Next: the outcomes [cur, src, err], src what the source said
CursorNext(w, c) ==
    { [ cur |-> [c EXCEPT !.commit = o.c, !.commits = o.it],
        src |-> o.err,
        err |-> IF o.err # "OK" /\ ~Swallowed(o.err) THEN o.err ELSE "OK" ]
      : o \in IterNext(w, c.commits) }

\* return cur.Next(), at the end of Filter
FilterAdvance(w, c, made) ==
    { [cur |-> o.cur, src |-> o.src, err |-> o.err, calls |-> made]
      : o \in CursorNext(w, c) }

\* if hash != "": a single commit, straight from the object store
PointLookup(w, c, hash, made) ==
    FilterAdvance(w, [c EXCEPT !.commits = NewLookupIter(NewHash(hash))],
                  made \cup {"NewCommitIter"})

\* mutant: a range bound that does not parse is the zero time
MutBound(s) ==
    IF s # "" THEN [ok |-> TRUE, t |-> ParseRFC3339(s).t] ELSE Nil

\* a range bound that parses, or nil
Bound(s) ==
    IF s # "" /\ ParseRFC3339(s).ok THEN ParseRFC3339(s) ELSE Nil

\* mutant: the bounds are handed over the wrong way round
MutLogFrom(w, c, from, f, made) ==
    IF CommitObject(w, from) # "OK"
    THEN {[cur |-> [c EXCEPT !.commits = Nil], src |-> "none",
           err |-> "failed to create iterator", calls |-> made \cup {"Log"}]}
    ELSE FilterAdvance(w,
            [c EXCEPT !.commits =
                NewLogIter(w, from, Bound(f.end), Bound(f.start))],
            made \cup {"Log"})

\* skip_mailmap: the range bounds, repo.Log, cur.Next
LogFrom(w, c, from, f, made) ==
    IF CommitObject(w, from) # "OK"
    THEN {[cur |-> [c EXCEPT !.commits = Nil], src |-> "none",
           err |-> "failed to create iterator", calls |-> made \cup {"Log"}]}
    ELSE FilterAdvance(w,
            [c EXCEPT !.commits =
                NewLogIter(w, from, Bound(f.start), Bound(f.end))],
            made \cup {"Log"})

\* if !skipMailmap: the .mailmap of the start commit's tree
LoadMailmap(w, c, from, f, made) ==
    IF CommitObject(w, from) # "OK"
    THEN {[cur |-> c, src |-> "none", err |-> "could not lookup commit",
           calls |-> made \cup {"CommitObject"}]}
    ELSE LET file == w.mailmap[from]
             m1   == made \cup {"CommitObject", "Tree"}
         IN  IF file.kind = "tree_error"
             THEN {[cur |-> c, src |-> "none",
                    err |-> "could not lookup tree", calls |-> m1]}
             ELSE IF file.kind = "lookup_error"
             THEN {[cur |-> c, src |-> "none",
                    err |-> "could not lookup mailmap file",
                    calls |-> m1 \cup {"File"}]}
             ELSE IF file.kind = "not_found"
             THEN LogFrom(w, c, from, f, m1 \cup {"File"})
             ELSE IF file.kind = "contents_error"
             THEN {[cur |-> c, src |-> "none",
                    err |-> "could not retrieve contents of mailmap file",
                    calls |-> m1 \cup {"File", "Contents"}]}
             ELSE IF file.kind = "malformed"
             THEN {[cur |-> c, src |-> "none",
                    err |-> "could not parse mailmap file",
                    calls |-> m1 \cup {"File", "Contents", "Parse"}]}
             ELSE LogFrom(w, [c EXCEPT !.mm = Parse(file)], from, f,
                          m1 \cup {"File", "Contents", "Parse"})

\* the scan from a start commit: the mailmap unless skipped, then the log
ScanFrom(w, x, c, from, f, made) ==
    IF ~SkipMailmap(x) THEN LoadMailmap(w, c, from, f, made)
    ELSE LogFrom(w, c, from, f, made)

\* mutant: a reference that does not resolve falls back to the head
MutScan(w, x, c0, f, made) ==
    LET c   == [c0 EXCEPT !.rev = [name |-> f.refName]]
        rev == ResolveRevision(w, f.refName)
        ref == RepoHead(w)
    IN  IF f.refName # "" /\ rev.ok
        THEN ScanFrom(w, x, c, rev.hash, f, made \cup {"ResolveRevision"})
        ELSE IF ~ref.ok
        THEN {[cur |-> c, src |-> "none", err |-> "failed to resolve head",
               calls |-> made \cup {"Head"}]}
        ELSE ScanFrom(w, x, c, ref.hash, f, made \cup {"Head"})

\* the start point: the reference when one is bound, the head otherwise
Scan(w, x, c0, f, made) ==
    LET c == [c0 EXCEPT !.rev = [name |-> f.refName]]
    IN  IF f.refName # ""
        THEN LET rev == ResolveRevision(w, f.refName)
             IN  IF ~rev.ok
                 THEN {[cur |-> c, src |-> "none", err |-> "failed to resolve",
                        calls |-> made \cup {"ResolveRevision"}]}
                 ELSE ScanFrom(w, x, c, rev.hash, f,
                               made \cup {"ResolveRevision"})
        ELSE LET ref == RepoHead(w)
             IN  IF ~ref.ok
                 THEN {[cur |-> c, src |-> "none", err |-> "failed to resolve head",
                        calls |-> made \cup {"Head"}]}
                 ELSE ScanFrom(w, x, c, ref.hash, f, made \cup {"Head"})

\* mutant: the bound hash is not looked at, every Filter is a scan
MutStrategy(w, x, c, f, made) ==
    Scan(w, x, c, f, made)

\* the two traversal strategies
Strategy(w, x, c, f, made) ==
    IF f.hash # "" THEN PointLookup(w, c, f.hash, made)
    ELSE Scan(w, x, c, f, made)

\* gitLogCursor.Filter: the outcomes [cur, src, err, calls]
FilterOutcomes(w, x, c, s, values) ==
    LET f == Fields(s, values)
        d == GetDefaultRepoFromCtx(x)
    IN  IF f.path = "" /\ ~d.ok
        THEN {[cur |-> c, src |-> "none", err |-> "no default repository",
               calls |-> {"GetDefaultRepoFromCtx"}]}
        ELSE LET path == IF f.path = "" THEN d.path ELSE f.path
                 made == (IF f.path = "" THEN {"GetDefaultRepoFromCtx"} ELSE {})
                         \cup {"Open"}
             IN  IF ~LocatorOpens(path)
                 THEN {[cur |-> c, src |-> "none", err |-> "failed to open",
                        calls |-> made]}
                 ELSE Strategy(w, x, [c EXCEPT !.repo = [path |-> path]], f, made)

\* mutant: Close returns without closing the source
MutCursorClose(c) == c

\* gitLogCursor.Close: if cur.commits != nil { cur.commits.Close() }
CursorClose(c) ==
    IF c.commits # Nil THEN [c EXCEPT !.commits = IterClose(@)] ELSE c

\* the author and committer as Column shows them
properAuthorSig(w, c) == Lookup(c.mm, w.author[c.commit.hash])
properCommitterSig(w, c) == Lookup(c.mm, w.committer[c.commit.hash])

\* mutant: the committer columns show the author
MutColumnValue(w, c, col) ==
    CASE col = 0 -> HashString(c.commit.hash)
      [] col = 1 -> w.message[c.commit.hash]
      [] col = 2 -> properAuthorSig(w, c).Name
      [] col = 3 -> properAuthorSig(w, c).Email
      [] col = 4 -> FormatRFC3339(w.authorWhen[c.commit.hash])
      [] col = 5 -> properAuthorSig(w, c).Name
      [] col = 6 -> properAuthorSig(w, c).Email
      [] col = 7 -> FormatRFC3339(w.when[c.commit.hash])
      [] col = 8 -> Cardinality(w.parents[c.commit.hash])
      [] OTHER -> Nil

\* gitLogCursor.Column: what the switch hands to the host for a column
ColumnValue(w, c, col) ==
    CASE col = 0 -> HashString(c.commit.hash)
      [] col = 1 -> w.message[c.commit.hash]
      [] col = 2 -> properAuthorSig(w, c).Name
      [] col = 3 -> properAuthorSig(w, c).Email
      [] col = 4 -> FormatRFC3339(w.authorWhen[c.commit.hash])
      [] col = 5 -> properCommitterSig(w, c).Name
      [] col = 6 -> properCommitterSig(w, c).Email
      [] col = 7 -> FormatRFC3339(w.when[c.commit.hash])
      [] col = 8 -> Cardinality(w.parents[c.commit.hash])
      [] OTHER -> Nil

-----------------------------------------------------------------------------
(* The repositories and the calls the host makes *)

\* the committer times of the commits of a scanned repository
Times == {1, 2, 3}

NoMailmap == [kind |-> "not_found", entries |-> [x \in {} |-> x]]

\* a repository of n commits, the last one the head, all objects intact
Repository(n, parents, when) ==
    [ n          |-> n,
      parents    |-> parents,
      when       |-> when,
      authorWhen |-> when,
      author     |-> [c \in 1..n |-> IF c % 2 = 1 THEN RawA ELSE RawBob],
      committer  |-> [c \in 1..n |-> IF c % 2 = 0 THEN RawA ELSE RawBob],
      message    |-> [c \in 1..n |-> "msg"],
      head       |-> n,
      refs       |-> [r \in {"dev"} |-> 1],
      mailmap    |-> [c \in 1..n |-> NoMailmap],
      corrupt    |-> {},
      missing    |-> {} ]

\* every commit graph over MaxCommits commits (parents are older objects),
\* with every assignment of committer times
ScanWorlds ==
    { Repository(MaxCommits, p, t) :
        p \in { q \in [1..MaxCommits -> SUBSET (1..MaxCommits)] :
                    \A c \in 1..MaxCommits : q[c] \subseteq 1..(c - 1) },
        t \in [1..MaxCommits -> Times] }

\* a linear history, each commit a second after its parent
Linear ==
    Repository(MaxCommits,
               [c \in 1..MaxCommits |-> IF c = 1 THEN {} ELSE {c - 1}],
               [c \in 1..MaxCommits |-> c])

\* the linear history with a .mailmap in the head's tree
Mapped(kind) ==
    [Linear EXCEPT !.mailmap[MaxCommits] = [kind |-> kind, entries |-> TheMailMap]]

\* what can be wrong with the .mailmap, the head and the objects
CursorWorlds ==
    { Mapped(k) : k \in {"ok", "not_found", "malformed", "lookup_error",
                         "contents_error", "tree_error"} }
    \cup
    { [Mapped("ok") EXCEPT !.head = ZeroHash],
      [Mapped("ok") EXCEPT !.corrupt = {2}],
      [Mapped("ok") EXCEPT !.corrupt = {MaxCommits}],
      [Mapped("ok") EXCEPT !.missing = {1}] }

HasDefault == [ok |-> TRUE, path |-> RepoPath]
NoDefault == [ok |-> FALSE, path |-> ""]

Contexts ==
    { [defaultRepo |-> HasDefault, skipMailmap |-> FALSE],
      [defaultRepo |-> HasDefault, skipMailmap |-> TRUE],
      [defaultRepo |-> NoDefault, skipMailmap |-> FALSE] }

\* what Filter is called with: the plan's IndexString and the bound values
Args(bindings) ==
    [ s      |-> enc([i \in 1..Len(bindings) |-> bindings[i].tag]),
      values |-> [i \in 1..Len(bindings) |-> bindings[i].val] ]

Optional(tag, vals) ==
    {<<>>} \cup {<<[tag |-> tag, val |-> v]>> : v \in vals}

\* the selector and hash bindings of the cursor's specification
CursorArgs ==
    { Args(f \o h) :
        f \in Optional(TagRef, {"", "dev", "nope"}),
        h \in Optional(TagHash, {"", "a2", "A2", "ff"}) }
    \cup
    { Args(r \o h) :
        r \in Optional(TagRepository, {RepoPath, "/nowhere"}),
        h \in Optional(TagHash, {"a2"}) }
    \cup
    { Args(<<[tag |-> TagHash, val |-> "a2"], [tag |-> TagRef, val |-> "dev"]>>) }

\* the bindings of the projection's specification
ProjectArgs ==
    { Args(f \o h) :
        f \in Optional(TagRef, {"dev"}),
        h \in Optional(TagHash, {"a2"}) }

\* the range bindings of the scan's specification
ScanArgs ==
    { Args(a \o b) :
        a \in Optional(TagSince, {"yesterday", "2021-01-01T00:00:01Z",
                                  "2021-01-01T01:00:02+01:00"}),
        b \in Optional(TagUntil, {"yesterday", "2021-01-01T00:00:02Z",
                                  "2021-01-01T00:00:03Z"}) }

NoCall == [op |-> "none", src |-> "none", err |-> "OK"]
NoFilter == [s |-> <<>>, values |-> <<>>, made |-> {}, err |-> "OK", n |-> 0]

\* the host asks the planner for a plan
DoBestIndex ==
    /\ ~plan.called
    /\ plan' = BestIndex(input)
    /\ UNCHANGED <<input, world, ctx, cur, ret, rows, calls, result, codec, options, applied>>

\* the host calls xFilter with a plan's IndexString and values
Filter(a) ==
    \E o \in FilterOutcomes(world, ctx, cur, a.s, a.values) :
        /\ cur' = o.cur
        /\ ret' = [op |-> "Filter", src |-> o.src, err |-> o.err]
        /\ calls' = [s |-> a.s, values |-> a.values, made |-> o.calls,
                     err |-> o.err, n |-> 1]
        /\ rows' = IF o.err = "OK" /\ ~Eof(o.cur) THEN <<o.cur.commit.hash>> ELSE <<>>
        /\ result' = Nil
        /\ UNCHANGED <<input, plan, world, ctx, codec, options, applied>>

\* the host calls xNext
Next ==
    /\ cur.commits # Nil
    /\ \E o \in CursorNext(world, cur) :
        /\ cur' = o.cur
        /\ ret' = [op |-> "Next", src |-> o.src, err |-> o.err]
        /\ rows' = IF o.err = "OK" /\ ~Eof(o.cur)
                   THEN Append(rows, o.cur.commit.hash) ELSE rows
        /\ result' = Nil
        /\ UNCHANGED <<input, plan, world, ctx, calls, codec, options, applied>>

\* the host calls xColumn for a column of the current row
Column(col) ==
    /\ ~Eof(cur)
    /\ result' = [col |-> col, value |-> ColumnValue(world, cur, col)]
    /\ ret' = [op |-> "Column", src |-> "none", err |-> "OK"]
    /\ UNCHANGED <<input, plan, world, ctx, cur, rows, calls, codec, options, applied>>

\* the host calls xClose
Close ==
    /\ cur' = CursorClose(cur)
    /\ ret' = [op |-> "Close", src |-> "none", err |-> "OK"]
    /\ result' = Nil
    /\ UNCHANGED <<input, plan, world, ctx, rows, calls, codec, options, applied>>

FreshCursor ==
    /\ cur = NewCursor
    /\ ret = NoCall
    /\ rows = <<>>
    /\ calls = NoFilter
    /\ result = Nil

\* no tag sequence under way, no option function applied
NoCodec == [tags |-> <<>>, bitmap |-> <<>>, s |-> Nil, decoded |-> Nil]
NoOptions == [Locator |-> Nil, ExtraFunctions |-> FALSE, Context |-> Nil]
Unconfigured ==
    /\ codec = NoCodec
    /\ options = NoOptions
    /\ applied = <<>>

\* the planner on every offered input
InitPlan ==
    /\ input \in Inputs
    /\ plan = NoPlan
    /\ world = Linear
    /\ ctx = [defaultRepo |-> HasDefault, skipMailmap |-> FALSE]
    /\ FreshCursor
    /\ Unconfigured

NextPlan == DoBestIndex

SpecPlan == InitPlan /\ [][NextPlan]_vars

\* one cursor, filtered again and again, on a repository that may be broken
Init ==
    /\ input = [Constraints |-> <<>>, OrderBy |-> <<>>]
    /\ plan = NoPlan
    /\ world \in CursorWorlds
    /\ ctx \in Contexts
    /\ FreshCursor
    /\ Unconfigured

NextCursor ==
    \/ \E a \in CursorArgs : Filter(a)
    \/ Next
    \/ Close

Spec == Init /\ [][NextCursor]_vars

\* one scan of an intact repository, whatever its commit graph
InitScan ==
    /\ input = [Constraints |-> <<>>, OrderBy |-> <<>>]
    /\ plan = NoPlan
    /\ world \in ScanWorlds
    /\ ctx = [defaultRepo |-> HasDefault, skipMailmap |-> FALSE]
    /\ FreshCursor
    /\ Unconfigured

\* the scan's one Filter, on the cursor as the table opened it
FirstFilter(a) == calls.n = 0 /\ Filter(a)

NextScan ==
    \/ \E a \in ScanArgs : FirstFilter(a)
    \/ Next
    \/ Close

SpecScan == InitScan /\ [][NextScan]_vars

\* the rows of a cursor projected, with and without a .mailmap
ProjectWorlds ==
    { Mapped("ok"), Mapped("not_found"),
      [Mapped("ok") EXCEPT !.mailmap[1] = [kind |-> "ok", entries |-> TheMailMap]] }

InitProject ==
    /\ input = [Constraints |-> <<>>, OrderBy |-> <<>>]
    /\ plan = NoPlan
    /\ world \in ProjectWorlds
    /\ ctx \in {x \in Contexts : x.defaultRepo.ok}
    /\ FreshCursor
    /\ Unconfigured

NextProject ==
    \/ \E a \in ProjectArgs : Filter(a)
    \/ Next
    \/ \E col \in 0..10 : Column(col)
    \/ Close

SpecProject == InitProject /\ [][NextProject]_vars

\* the (op, col) pairs set can be called with, and the five BestIndex
\* calls it with
Tags == [op : 0..MaxTagField, col : 0..MaxTagField]
PlannerTags ==
    { [op |-> OpEQ, col |-> ColHash], [op |-> OpEQ, col |-> ColRepository],
      [op |-> OpEQ, col |-> ColRef], [op |-> OpLT, col |-> ColCommitterWhen],
      [op |-> OpGT, col |-> ColCommitterWhen] }
TagSeqs ==
    {<<>>} \cup { <<t>> \o q : t \in Tags, q \in SeqsUpTo(PlannerTags, MaxTagTail) }

\* BestIndex appends the next tag to its bitmap
SetTag ==
    /\ codec.s = Nil
    /\ Len(codec.bitmap) < Len(codec.tags)
    /\ LET t == codec.tags[Len(codec.bitmap) + 1]
       IN  codec' = [codec EXCEPT !.bitmap = set(@, t.op, t.col)]
    /\ UNCHANGED <<planVars, cursorVars, optionVars>>

\* out.IndexString = enc(bitmap)
Encode ==
    /\ codec.s = Nil
    /\ Len(codec.bitmap) = Len(codec.tags)
    /\ codec' = [codec EXCEPT !.s = [text |-> enc(codec.bitmap)]]
    /\ UNCHANGED <<planVars, cursorVars, optionVars>>

\* var bitmap, _ = dec(s)
Decode ==
    /\ codec.s # Nil
    /\ codec.decoded = Nil
    /\ codec' = [codec EXCEPT !.decoded = [bitmap |-> dec(codec.s.text)]]
    /\ UNCHANGED <<planVars, cursorVars, optionVars>>

\* a tag sequence from the planner's bitmap to the cursor's
InitCodec ==
    /\ input = [Constraints |-> <<>>, OrderBy |-> <<>>]
    /\ plan = NoPlan
    /\ world = Linear
    /\ ctx = [defaultRepo |-> HasDefault, skipMailmap |-> FALSE]
    /\ FreshCursor
    /\ codec \in {[NoCodec EXCEPT !.tags = t] : t \in TagSeqs}
    /\ options = NoOptions
    /\ applied = <<>>

NextCodec ==
    \/ SetTag
    \/ Encode
    \/ Decode

SpecCodec == InitCodec /\ [][NextCodec]_vars

\* the texts the host binds to a plan's argument slots
BoundValues == {RepoPath, "nope"}

\* the host calls xFilter with the IndexString of the plan BestIndex
\* returned and one value for every argument slot of the plan
FilterWithPlan ==
    /\ plan.called /\ plan.err = "OK"
    /\ calls.n = 0
    /\ \E values \in [1..Len(dec(plan.out.IndexString)) -> BoundValues] :
            Filter([s |-> plan.out.IndexString, values |-> values])

\* a query planned, then run
InitQuery ==
    /\ input \in {in \in Inputs : in.OrderBy = <<>>}
    /\ plan = NoPlan
    /\ world = Linear
    /\ ctx = [defaultRepo |-> HasDefault, skipMailmap |-> FALSE]
    /\ FreshCursor
    /\ Unconfigured

NextQuery ==
    \/ DoBestIndex
    \/ FilterWithPlan

SpecQuery == InitQuery /\ [][NextQuery]_vars

-----------------------------------------------------------------------------
(* tables.Options and its option functions *)

\* WithExtraFunctions: o.ExtraFunctions = true
WithExtraFunctions(o) == [o EXCEPT !.ExtraFunctions = TRUE]

\* WithRepoLocator(loc): o.Locator = loc
WithRepoLocator(loc, o) == [o EXCEPT !.Locator = loc]

\* mutant: a key the context holds keeps its value
MutWithContextValue(key, value, o) ==
    LET m == IF o.Context = Nil THEN [k \in {} |-> ""] ELSE o.Context.entries
    IN  [o EXCEPT !.Context =
            [entries |-> [k \in DOMAIN m \cup {key} |->
                            IF k \in DOMAIN m THEN m[k] ELSE value]]]

\* WithContextValue(key, value): a nil Context becomes an empty map, then
\* o.Context[key] = value
WithContextValue(key, value, o) ==
    LET m == IF o.Context = Nil THEN [k \in {} |-> ""] ELSE o.Context.entries
    IN  [o EXCEPT !.Context =
            [entries |-> [k \in DOMAIN m \cup {key} |->
                            IF k = key THEN value ELSE m[k]]]]

\* the keys, values and locators of the model
OptionKeys == {"defaultRepoPath", "skipMailmap"}
OptionValues == {"/repo", "true"}
Locators == {[name |-> "disk"], [name |-> "memory"]}

\* the Options values the option functions meet first
OptionsAtFirst ==
    [ Locator : {Nil, [name |-> "disk"]},
      ExtraFunctions : BOOLEAN,
      Context : {Nil, [entries |-> [k \in {} |-> ""]],
                 [entries |-> [k \in {"skipMailmap"} |-> "false"]]} ]

ApplyWithExtraFunctions ==
    /\ Len(applied) < MaxOptions
    /\ options' = WithExtraFunctions(options)
    /\ applied' = Append(applied, [fn |-> "WithExtraFunctions"])
    /\ UNCHANGED <<planVars, cursorVars, codecVars>>

ApplyWithRepoLocator(loc) ==
    /\ Len(applied) < MaxOptions
    /\ options' = WithRepoLocator(loc, options)
    /\ applied' = Append(applied, [fn |-> "WithRepoLocator", loc |-> loc])
    /\ UNCHANGED <<planVars, cursorVars, codecVars>>

ApplyWithContextValue(key, value) ==
    /\ Len(applied) < MaxOptions
    /\ options' = WithContextValue(key, value, options)
    /\ applied' = Append(applied, [fn |-> "WithContextValue",
                                   key |-> key, value |-> value])
    /\ UNCHANGED <<planVars, cursorVars, codecVars>>

\* one Options value, the option functions applied to it one after another
InitOptions ==
    /\ input = [Constraints |-> <<>>, OrderBy |-> <<>>]
    /\ plan = NoPlan
    /\ world = Linear
    /\ ctx = [defaultRepo |-> HasDefault, skipMailmap |-> FALSE]
    /\ FreshCursor
    /\ codec = NoCodec
    /\ options \in OptionsAtFirst
    /\ applied = <<>>

NextOptions ==
    \/ ApplyWithExtraFunctions
    \/ \E loc \in Locators : ApplyWithRepoLocator(loc)
    \/ \E key \in OptionKeys, value \in OptionValues :
            ApplyWithContextValue(key, value)

SpecOptions == InitOptions /\ [][NextOptions]_vars

-----------------------------------------------------------------------------
(* The planner's claims, under SpecPlan *)

PlanReturned == plan.called /\ plan.err = "OK"
PlanFailed == plan.called /\ plan.err = "SQLITE_CONSTRAINT" /\ plan.out = Nil

\* rules 1-3: hash EQ, repository EQ, ref EQ, committer_when LT or GT
Rule123(c) ==
    \/ c.ColumnIndex = 0 /\ c.Op = "EQ"
    \/ c.ColumnIndex = 9 /\ c.Op = "EQ"
    \/ c.ColumnIndex = 10 /\ c.Op = "EQ"
    \/ c.ColumnIndex = 7 /\ c.Op \in {"LT", "GT"}

\* the tag that describes a constraint: its role, then its column
TagOf(c) ==
    (CASE c.Op = "EQ" -> 1 [] c.Op = "LT" -> 2 [] c.Op = "GT" -> 3 [] OTHER -> 0) * 16
    + c.ColumnIndex

\* the constraints a plan gave an argument slot
Slotted == {i \in 1..Len(input.Constraints) : plan.out.ConstraintUsage[i] # Nil}

\* C1: in every plan BestIndex returns, the constraints with an argument
\* slot are exactly the usable ones of rules 1-3; their ArgvIndex values are
\* 1..n without gap or repeat, in the order offered; the bitmap has n tags,
\* and tag k describes the constraint holding ArgvIndex k.
C1_SlotsMatchTags ==
    PlanReturned =>
        LET cs     == input.Constraints
            usage  == plan.out.ConstraintUsage
            n      == Cardinality(Slotted)
            bitmap == dec(plan.out.IndexString)
        IN  /\ Slotted = {i \in 1..Len(cs) : cs[i].Usable /\ Rule123(cs[i])}
            /\ {usage[i].ArgvIndex : i \in Slotted} = 1..n
            /\ \A i, j \in Slotted : i < j => usage[i].ArgvIndex < usage[j].ArgvIndex
            /\ Len(bitmap) = n
            /\ \A i \in Slotted : bitmap[usage[i].ArgvIndex] = TagOf(cs[i])

\* a plan whose first constraint is usable but not pushed down and whose
\* second one holds the first slot
C1_Witness ==
    /\ PlanReturned
    /\ Len(input.Constraints) >= 2
    /\ input.Constraints[1].Usable
    /\ ~Rule123(input.Constraints[1])
    /\ plan.out.ConstraintUsage[1] = Nil
    /\ plan.out.ConstraintUsage[2] # Nil
    /\ plan.out.ConstraintUsage[2].ArgvIndex = 1
    /\ Len(dec(plan.out.IndexString)) = 1

UnusableOn(col) ==
    \E i \in 1..Len(input.Constraints) :
        /\ input.Constraints[i].ColumnIndex = col
        /\ input.Constraints[i].Op = "EQ"
        /\ ~input.Constraints[i].Usable

\* C2: an unusable equality on the hash column makes BestIndex return the
\* constraint error and no plan, whatever else is offered.
C2_UnusableHashFails ==
    (plan.called /\ UnusableOn(0)) => PlanFailed

\* the unusable hash equality comes after a usable repository equality,
\* with an ordering the planner could have consumed
C2_Witness ==
    /\ PlanFailed
    /\ Len(input.Constraints) = 2
    /\ input.Constraints[1] = [ColumnIndex |-> 9, Op |-> "EQ", Usable |-> TRUE]
    /\ input.Constraints[2] = [ColumnIndex |-> 0, Op |-> "EQ", Usable |-> FALSE]
    /\ input.OrderBy = <<[ColumnIndex |-> 7, Desc |-> TRUE]>>

\* C3: an unusable equality on repository or on ref makes BestIndex return
\* the constraint error and no plan, as an unusable hash equality does.
C3_UnusableSelectorFails ==
    (plan.called /\ (UnusableOn(9) \/ UnusableOn(10))) => PlanFailed

HasUsableHashEq ==
    \E i \in 1..Len(input.Constraints) :
        input.Constraints[i] = [ColumnIndex |-> 0, Op |-> "EQ", Usable |-> TRUE]

\* C4: a returned plan carries the unique-scan flag and a cost and row
\* estimate of 1 exactly when a usable hash equality is offered; every
\* other plan has no flag and no explicit estimate.
C4_UniqueOnlyForHash ==
    PlanReturned =>
        IF HasUsableHashEq
        THEN /\ plan.out.IdxFlags = {"INDEX_SCAN_UNIQUE"}
             /\ plan.out.EstimatedCost = 1
             /\ plan.out.EstimatedRows = 1
        ELSE /\ plan.out.IdxFlags = {}
             /\ plan.out.EstimatedCost = 0
             /\ plan.out.EstimatedRows = 0

\* a unique plan for a hash equality offered after a repository equality
C4_Witness ==
    /\ PlanReturned
    /\ HasUsableHashEq
    /\ input.Constraints[1] = [ColumnIndex |-> 9, Op |-> "EQ", Usable |-> TRUE]
    /\ "INDEX_SCAN_UNIQUE" \in plan.out.IdxFlags

\* C5: the order-by is declared consumed exactly when the requested
\* ordering is the one term committer_when descending, whatever the
\* constraints.
C5_OrderByConsumedIffCommitterWhenDesc ==
    PlanReturned =>
        (plan.out.OrderByConsumed <=>
            input.OrderBy = <<[ColumnIndex |-> 7, Desc |-> TRUE]>>)

\* the ordering consumed in a plan that also pushes a constraint down
C5_Witness ==
    /\ PlanReturned
    /\ plan.out.OrderByConsumed
    /\ Slotted # {}

-----------------------------------------------------------------------------
(* The cursor's claims, under Spec *)

\* the values of the last Filter, as the tags of its plan name them
BoundTo(tag) ==
    {calls.values[i] : i \in {j \in 1..Len(calls.values) : dec(calls.s)[j] = tag}}

\* the last Filter opened the repository: it came to choose its strategy
Opened ==
    /\ calls.n = 1
    /\ "Open" \in calls.made
    /\ calls.err # "failed to open"

\* the collaborator calls of a scan: ref and head resolution, the mailmap,
\* the log with its range
ScanCalls ==
    {"ResolveRevision", "Head", "CommitObject", "Tree", "File", "Contents",
     "Parse", "Log"}

\* the point lookup of H: nothing of a scan is called, the source is built
\* from H, at most one row, and the row this Filter stands on shows `shown`
PointLookupOf(shown) ==
    /\ calls.made \cap ScanCalls = {}
    /\ "NewCommitIter" \in calls.made
    /\ cur.commits # Nil
    /\ cur.commits.kind = "lookup"
    /\ Len(rows) <= 1
    /\ (rows # <<>> /\ ~Eof(cur)) => ColumnValue(world, cur, 0) = shown

Canonical(H) ==
    CASE H = "A2" -> "a2" [] H = "FF" -> "ff" [] OTHER -> H

NoObjectFor(H) == H \notin {"a2", "A2"} \/ 2 \in world.missing

\* C7: when the source reports its end or an object not found, Next and
\* the advance in Filter return no error and leave no current row; any
\* other error of the source is returned; a hash equality whose hash has no
\* object yields no row (Eof right after Filter) and no error.
C7_EndOfSequenceIsNoError ==
    /\ (ret.op \in {"Filter", "Next"} /\ ret.src \in {"EOF", "ErrObjectNotFound"})
        => (ret.err = "OK" /\ Eof(cur))
    /\ (ret.op \in {"Filter", "Next"}
            /\ ret.src \notin {"none", "OK", "EOF", "ErrObjectNotFound"})
        => ret.err = ret.src
    /\ \A H \in BoundTo(16) :
        (ret.op = "Filter" /\ Opened /\ H # "" /\ NoObjectFor(H))
        => (ret.err = "OK" /\ ret.src = "ErrObjectNotFound" /\ Eof(cur) /\ rows = <<>>)

\* a Filter for a hash no object has
C7_Witness ==
    /\ ret = [op |-> "Filter", src |-> "ErrObjectNotFound", err |-> "OK"]
    /\ BoundTo(16) = {"ff"}
    /\ Eof(cur)
    /\ rows = <<>>

-----------------------------------------------------------------------------
(* The scan's claims, under SpecScan *)

RECURSIVE ReachIn(_, _, _)
\* the commits reachable from the set S in at most k parent steps
ReachIn(w, S, k) ==
    IF k = 0 THEN S
    ELSE ReachIn(w, S \cup UNION {w.parents[c] : c \in S}, k - 1)

\* the commits reachable from the head
Reachable == ReachIn(world, {world.head}, world.n)

\* the scan with no bound value
PlainScan == calls.n = 1 /\ calls.values = <<>> /\ calls.err = "OK"

\* the source said it has no more
Drained == ret.op = "Next" /\ ret.src = "EOF"

NoDuplicates(q) == \A i, j \in 1..Len(q) : i # j => q[i] # q[j]

Range(q) == {q[i] : i \in 1..Len(q)}

ParentsAreNotLater ==
    \A c \in 1..world.n : \A p \in world.parents[c] : world.when[p] <= world.when[c]

\* the commit was discovered when row i was yielded: it is the head or a
\* parent of a row before i
DiscoveredBefore(c, i) ==
    c = world.head \/ \E k \in 1..(i - 1) : c \in world.parents[rows[k]]

Since == {ParseRFC3339(v) : v \in BoundTo(55)}
Until == {ParseRFC3339(v) : v \in BoundTo(39)}

\* C9: after a Filter with no hash whose range start T1 and range end T2
\* both parse, T1 < T2, every row has its committer time in [T1, T2], and a
\* reachable commit whose committer time is T1 is yielded.
C9_RowsWithinRange ==
    \A T1 \in Since, T2 \in Until :
        (calls.n = 1 /\ calls.err = "OK" /\ T1.ok /\ T2.ok /\ T1.t < T2.t) =>
            /\ \A i \in 1..Len(rows) :
                    T1.t <= world.when[rows[i]] /\ world.when[rows[i]] <= T2.t
            /\ Drained =>
                    \A c \in Reachable : world.when[c] = T1.t => c \in Range(rows)

\* a drained scan of a range given in another time zone, which yielded a
\* commit of time T1 and left out an earlier, reachable one
C9_Witness ==
    /\ calls.n = 1
    /\ Drained
    /\ BoundTo(55) = {"2021-01-01T01:00:02+01:00"}
    /\ BoundTo(39) = {"2021-01-01T00:00:03Z"}
    /\ \E i \in 1..Len(rows) : world.when[rows[i]] = 2
    /\ \E c \in Reachable : world.when[c] = 1

-----------------------------------------------------------------------------
(* The projection's claims, under SpecProject *)

\* the commit the last Filter's scan started at
StartCommit ==
    IF BoundTo(26) # {} /\ BoundTo(26) # {""}
    THEN world.refs[CHOOSE r \in BoundTo(26) : TRUE]
    ELSE world.head

\* the identity a map's entries give for a raw one
Mapped2(entries, raw) ==
    IF raw \in DOMAIN entries THEN entries[raw] ELSE raw

\* what the identity columns are to show of a commit under the entries e
Shows(e, col, c) ==
    CASE col = 2 -> Mapped2(e, world.author[c]).Name
      [] col = 3 -> Mapped2(e, world.author[c]).Email
      [] col = 5 -> Mapped2(e, world.committer[c]).Name
      [] col = 6 -> Mapped2(e, world.committer[c]).Email

\* the cursor stands on a row of a successful scan (no bound hash)
OnScannedRow ==
    /\ calls.n = 1
    /\ calls.err = "OK"
    /\ BoundTo(16) = {}
    /\ ~Eof(cur)

\* C10: when the start commit's .mailmap of a scan maps a raw identity to a
\* canonical one, Column shows the canonical name and email in the author
\* columns (2, 3) and committer columns (5, 6) of every commit carrying it,
\* and the raw identity where the map has none; with skipMailmap set,
\* Column shows the raw identity of every commit.
C10_ColumnShowsMappedIdentity ==
    \A col \in {2, 3, 5, 6} :
        /\ (OnScannedRow /\ ~ctx.skipMailmap
                /\ world.mailmap[StartCommit].kind = "ok") =>
            /\ ColumnValue(world, cur, col)
                    = Shows(world.mailmap[StartCommit].entries, col, cur.commit.hash)
            /\ (result # Nil /\ result.col = col) =>
                    result.value
                        = Shows(world.mailmap[StartCommit].entries, col, cur.commit.hash)
        /\ (OnScannedRow /\ ctx.skipMailmap) =>
            /\ ColumnValue(world, cur, col)
                    = Shows([x \in {} |-> x], col, cur.commit.hash)
            /\ (result # Nil /\ result.col = col) =>
                    result.value = Shows([x \in {} |-> x], col, cur.commit.hash)

\* Column has shown Alice for the committer of a commit made by A, on the
\* second row of a scan
C10_Witness ==
    /\ OnScannedRow
    /\ ~ctx.skipMailmap
    /\ Len(rows) = 2
    /\ world.committer[cur.commit.hash] = RawA
    /\ result = [col |-> 5, value |-> "Alice"]

-----------------------------------------------------------------------------
(* The planner's claims, continued, under SpecPlan *)

\* the constraints whose usage tells the host to skip its own re-check
Omitted ==
    {i \in 1..Len(input.Constraints) :
        plan.out.ConstraintUsage[i] # Nil /\ plan.out.ConstraintUsage[i].Omit}

\* C15: in every plan BestIndex returns, Omit is set on the usage of
\* exactly the usable equalities on repository (9) and ref (10); the
\* usages of hash = ? and of committer_when < ? or > ? leave the re-check
\* to the host.
C15_OmitOnlyForSelectors ==
    PlanReturned =>
        /\ Omitted = {i \in 1..Len(input.Constraints) :
                        /\ input.Constraints[i].Usable
                        /\ input.Constraints[i].Op = "EQ"
                        /\ input.Constraints[i].ColumnIndex \in {9, 10}}
        /\ \A i \in Slotted :
                input.Constraints[i].ColumnIndex \in {0, 7}
                    => ~plan.out.ConstraintUsage[i].Omit

\* a plan with a ref equality, omitted, and a range bound, re-checked
C15_Witness ==
    /\ PlanReturned
    /\ Len(input.Constraints) = 2
    /\ input.Constraints[1] = [ColumnIndex |-> 10, Op |-> "EQ", Usable |-> TRUE]
    /\ input.Constraints[2] = [ColumnIndex |-> 7, Op |-> "GT", Usable |-> TRUE]
    /\ Omitted = {1}
    /\ Slotted = {1, 2}

-----------------------------------------------------------------------------
(* The cursor's life cycle, under Spec *)

\* nothing is left to read of a closed source: the lookup iterator is at
\* the end of its series (the committer-time iterator holds no resource)
Released(it) == it.kind = "lookup" => it.pos = Len(it.series)

\* C11: Close returns no error at any point (before the source's end,
\* after a failed Filter, with no Filter at all); it releases the source
\* the cursor holds, leaves the current row alone, and a second Close
\* changes nothing of the cursor or the source.
C11_CloseReleasesAndIsIdempotent ==
    /\ CursorClose(CursorClose(cur)) = CursorClose(cur)
    /\ CursorClose(cur).commit = cur.commit
    /\ cur.commits = Nil => CursorClose(cur) = cur
    /\ ret.op = "Close" =>
        /\ ret.err = "OK"
        /\ CursorClose(cur) = cur
        /\ cur.commits # Nil => Released(cur.commits)

\* a cursor closed while its lookup source still had its hash to read
C11_Witness ==
    /\ ret.op = "Close"
    /\ calls.n = 1 /\ calls.err = "OK"
    /\ cur.commits # Nil /\ cur.commits.kind = "lookup"
    /\ cur.commits.pos = 1
    /\ cur.commits.series = <<255>>

-----------------------------------------------------------------------------
(* The codec's claims, under SpecCodec *)

\* a byte read as a tag: the high nibble the op, the low nibble the column
Unpacked(b) == [op |-> b \div 16, col |-> b % 16]

\* an op and a column of four bits each
FitsNibbles(t) == t.op \in 0..15 /\ t.col \in 0..15

\* C12: a tag of an op in 0..15 and a column in 0..15, packed by set as
\* op<<4 | col, unpacks (byte >> 4, byte & 15) to the same pair, and a
\* sequence of such tags comes back from enc and dec as it was; a tag of
\* a column of 16 or more unpacks to another pair.
C12_TagRoundTrip ==
    /\ \A i \in 1..Len(codec.bitmap) :
        /\ FitsNibbles(codec.tags[i])
            => Unpacked(codec.bitmap[i]) = codec.tags[i]
        /\ codec.tags[i].col >= 16
            => Unpacked(codec.bitmap[i]) # codec.tags[i]
    /\ codec.decoded # Nil =>
        /\ codec.decoded.bitmap = codec.bitmap
        /\ (\A i \in 1..Len(codec.tags) : FitsNibbles(codec.tags[i]))
            => [i \in 1..Len(codec.decoded.bitmap)
                    |-> Unpacked(codec.decoded.bitmap[i])] = codec.tags

\* two tags, the first of the largest op and column, packed, encoded and
\* decoded
C12_Witness ==
    /\ codec.tags = <<[op |-> 15, col |-> 15], [op |-> OpLT, col |-> ColCommitterWhen]>>
    /\ codec.decoded # Nil
    /\ codec.decoded.bitmap = <<255, TagUntil>>

-----------------------------------------------------------------------------
(* The option functions' claims, under SpecOptions *)

\* the places in applied where WithContextValue was given the key
SetsOf(key) ==
    { i \in 1..Len(applied) :
        applied[i].fn = "WithContextValue" /\ applied[i].key = key }

\* the value the last WithContextValue gave the key
LastValueOf(key) ==
    applied[CHOOSE i \in SetsOf(key) : \A j \in SetsOf(key) : j <= i].value

\* the keys of a Context, none when it is nil
KeysOf(o) == IF o.Context = Nil THEN {} ELSE DOMAIN o.Context.entries

\* C13: whatever option functions were applied, Context[key] is the
\* value of the last WithContextValue for the key; WithContextValue makes
\* a map of a nil Context, changes no other key, nor Locator, nor
\* ExtraFunctions; WithExtraFunctions and WithRepoLocator leave Context
\* as it is.
C13_LastContextValueWins ==
    /\ \A key \in OptionKeys : SetsOf(key) # {} =>
        /\ options.Context # Nil
        /\ key \in KeysOf(options)
        /\ options.Context.entries[key] = LastValueOf(key)
    /\ \A key \in OptionKeys, value \in OptionValues :
        LET o == WithContextValue(key, value, options)
        IN  /\ o.Context # Nil
            /\ KeysOf(o) = KeysOf(options) \cup {key}
            /\ o.Context.entries[key] = value
            /\ \A k \in KeysOf(options) \ {key} :
                    o.Context.entries[k] = options.Context.entries[k]
            /\ o.Locator = options.Locator
            /\ o.ExtraFunctions = options.ExtraFunctions
    /\ WithExtraFunctions(options).Context = options.Context
    /\ \A loc \in Locators : WithRepoLocator(loc, options).Context = options.Context

\* a key set twice with another option function in between, on Options
\* whose Context was nil
C13_Witness ==
    /\ Len(applied) = 3
    /\ applied[1] = [fn |-> "WithContextValue", key |-> "skipMailmap", value |-> "/repo"]
    /\ applied[2].fn = "WithRepoLocator"
    /\ applied[3] = [fn |-> "WithContextValue", key |-> "skipMailmap", value |-> "true"]
    /\ options.Context = [entries |-> [k \in {"skipMailmap"} |-> "true"]]
    /\ options.Locator # Nil

-----------------------------------------------------------------------------
(* The contract between BestIndex and Filter, under SpecQuery *)

\* the field of Filter a constraint of rules 1-3 is about
FieldFor(c) ==
    CASE c.ColumnIndex = 0 -> "hash"
      [] c.ColumnIndex = 9 -> "path"
      [] c.ColumnIndex = 10 -> "refName"
      [] c.ColumnIndex = 7 /\ c.Op = "LT" -> "end"
      [] OTHER -> "start"

\* C14: every tag of a plan is one of the five bytes Filter knows, and
\* after Filter every constraint the plan gave a slot has its bound value
\* in the field it is about (hash, repository path, reference name, range
\* end for LT, range start for GT): none is dropped, none is elsewhere.
C14_EverySlotReachesItsField ==
    (plan.called /\ plan.err = "OK" /\ calls.n = 1) =>
        LET f == Fields(calls.s, calls.values)
        IN  /\ \A k \in 1..Len(dec(calls.s)) :
                    dec(calls.s)[k] \in {TagHash, TagRepository, TagRef,
                                         TagUntil, TagSince}
            /\ \A i \in Slotted :
                    f[FieldFor(input.Constraints[i])]
                        = calls.values[plan.out.ConstraintUsage[i].ArgvIndex]

-----------------------------------------------------------------------------
(* The scan's start point and its mailmap, under Spec *)

\* the last Filter opened the repository and had no target hash
ScanChosen == Opened /\ BoundTo(16) \subseteq {""}

\* the reference names bound to the last Filter
RefNames == BoundTo(26) \ {""}

\* the last Filter made no traversal source
NoSourceMade == calls.made \cap {"Log", "NewCommitIter"} = {}

\* the source the Filter just returned from made walks from this commit:
\* it is the one commit the source has taken off its heap
WalksFrom(from) ==
    (ret.op = "Filter" /\ "Log" \in calls.made /\ cur.commits # Nil)
        => (cur.commits.kind = "ctime" /\ cur.commits.seen = {from})

\* C16: a Filter with no target hash starts its scan at the commit the
\* bound reference name resolves to when one is bound, and at the head only
\* when none is; a start point that does not resolve is an error of
\* Filter: the other start point is not tried and no source is made.
C16_RefBeforeHeadNoFallback ==
    ScanChosen =>
        /\ \A r \in RefNames :
            /\ "ResolveRevision" \in calls.made
            /\ "Head" \notin calls.made
            /\ cur.rev = [name |-> r]
            /\ IF ResolveRevision(world, r).ok
               THEN WalksFrom(ResolveRevision(world, r).hash)
               ELSE calls.err = "failed to resolve" /\ NoSourceMade
        /\ RefNames = {} =>
            /\ "Head" \in calls.made
            /\ "ResolveRevision" \notin calls.made
            /\ IF RepoHead(world).ok
               THEN WalksFrom(RepoHead(world).hash)
               ELSE calls.err = "failed to resolve head" /\ NoSourceMade

\* a scan from the reference dev, which is not where the head is
C16_Witness ==
    /\ ScanChosen
    /\ RefNames = {"dev"}
    /\ ret = [op |-> "Filter", src |-> "OK", err |-> "OK"]
    /\ world.head # world.refs["dev"]
    /\ rows = <<world.refs["dev"]>>
    /\ cur.commits.seen = {world.refs["dev"]}

\* the last Filter resolved the start point of its scan
StartResolved ==
    /\ ScanChosen
    /\ calls.err \notin {"failed to resolve", "failed to resolve head"}

\* the .mailmap of the tree of the scan's start commit
StartMailmap == world.mailmap[StartCommit]

\* what Filter calls to read the .mailmap, and its errors for it
MailmapCalls == {"CommitObject", "Tree", "File", "Contents", "Parse"}
MailmapErrors ==
    {"could not lookup commit", "could not lookup tree",
     "could not lookup mailmap file",
     "could not retrieve contents of mailmap file",
     "could not parse mailmap file"}

\* the identity map gives no identity another one
EmptyMap(mm) == \A raw \in {RawA, RawBob} : Lookup(mm, raw) = raw

\* C17: in a scan Filter without skipMailmap, a start commit whose tree
\* has no .mailmap is no error and leaves the identity map empty; a
\* .mailmap that does not parse is an error of Filter and no source is
\* made; with skipMailmap the tree is never read and no error of Filter
\* comes from the mailmap.
C17_MailmapAbsentMalformedSkipped ==
    /\ (StartResolved /\ ~SkipMailmap(ctx)
            /\ CommitObject(world, StartCommit) = "OK") =>
        /\ StartMailmap.kind = "not_found" =>
            /\ calls.err \notin MailmapErrors
            /\ "Log" \in calls.made
            /\ EmptyMap(cur.mm)
        /\ StartMailmap.kind = "malformed" =>
            /\ calls.err = "could not parse mailmap file"
            /\ NoSourceMade
    /\ (StartResolved /\ SkipMailmap(ctx)) =>
        /\ calls.made \cap MailmapCalls = {}
        /\ calls.err \notin MailmapErrors

-----------------------------------------------------------------------------
(* The scan's claims, continued, under SpecScan *)

\* a commit that the bounds that parse let through
Kept(c) ==
    /\ \A T \in Since : T.ok => T.t <= world.when[c]
    /\ \A T \in Until : T.ok => world.when[c] <= T.t

\* a bound of the last Filter does not parse as RFC3339
Unparsed == \E T \in Since \cup Until : ~T.ok

\* the bound the source was made with, for the values bound to a tag
AppliedAs(bound, Ts) ==
    IF \E T \in Ts : T.ok THEN bound \in Ts ELSE bound = Nil

\* C18: a range start or end that does not parse as RFC3339 is as if it
\* were not bound: Filter returns no error, the source is made without
\* that bound and with the other one when it parses, and the rows are the
\* reachable commits the parsed bounds let through.
C18_UnparsedBoundIsAbsent ==
    (calls.n = 1 /\ Unparsed) =>
        /\ calls.err = "OK"
        /\ "Log" \in calls.made
        /\ AppliedAs(cur.commits.since, Since)
        /\ AppliedAs(cur.commits.until, Until)
        /\ \A i \in 1..Len(rows) : Kept(rows[i])
        /\ Drained => Range(rows) = {c \in Reachable : Kept(c)}

\* a drained scan whose start does not parse and whose end does: it
\* yielded a commit of the earliest time and left out a later, reachable one
C18_Witness ==
    /\ calls.n = 1
    /\ Drained
    /\ BoundTo(55) = {"yesterday"}
    /\ BoundTo(39) = {"2021-01-01T00:00:02Z"}
    /\ \E i \in 1..Len(rows) : world.when[rows[i]] = 1
    /\ \E c \in Reachable : world.when[c] = 3

-----------------------------------------------------------------------------
(* The cursor's current row, under Spec *)

\* C19: after any Filter, Next and Close calls, Eof is true exactly when
\* the cursor's current source has given no element yet (or there is no
\* source) or gave none to its last call, its end reached; otherwise Eof
\* is false and the current commit is the element the source gave last.
C19_EofIffSourceGaveNothing ==
    /\ cur.commits = Nil => Eof(cur)
    /\ cur.commits # Nil =>
        /\ Eof(cur) <=> cur.commits.last = Nil
        /\ cur.commit = cur.commits.last

\* C20: whenever Filter returns an error, whichever, the cursor has no
\* current row afterwards: Eof is true and there is no commit for Column
\* to project, also when an earlier Filter of the cursor had put it on a
\* row.
C20_FailedFilterLeavesNoRow ==
    (ret.op = "Filter" /\ ret.err # "OK") => Eof(cur)

-----------------------------------------------------------------------------
(* The identity map's life, under SpecProject *)

\* the last Filter took the point lookup
LookupChosen == BoundTo(16) \ {""} # {}

\* the entries of the identity map the last Filter is to build: those of
\* the start commit's .mailmap, none for a point lookup, with skipMailmap
\* set, or when the tree has no .mailmap
BuiltEntries ==
    IF LookupChosen \/ SkipMailmap(ctx) THEN [x \in {} |-> x]
    ELSE IF StartMailmap.kind = "ok" THEN StartMailmap.entries
    ELSE [x \in {} |-> x]

\* C21: after every successful Filter the identity map Column consults is
\* the one that Filter built (the parsed .mailmap of its start commit, or
\* the empty map when the file is absent, skipMailmap is set or the point
\* lookup was chosen): a map an earlier Filter of the cursor loaded is
\* never applied to the rows of a later one.
C21_MapIsTheOneThisFilterBuilt ==
    (calls.n = 1 /\ calls.err = "OK") =>
        /\ \A raw \in {RawA, RawBob} :
                Lookup(cur.mm, raw) = Mapped2(BuiltEntries, raw)
        /\ \A col \in {2, 3, 5, 6} :
                (~Eof(cur) /\ result # Nil /\ result.col = col) =>
                    result.value = Shows(BuiltEntries, col, cur.commit.hash)

=============================================================================
